---- MODULE Spec2Model ----
(***************************************************************************)
(* Model of lumina-core's real-time notification path:                     *)
(*   - utils/websockets.py   : WebSocketManager (connection registry and   *)
(*                             fan-out)                                    *)
(*   - database/redis_client.py : publish / subscribe / notify_user        *)
(* All coroutines run on one asyncio event loop: code between two awaits   *)
(* is one atomic step, and an await that really suspends is a step         *)
(* boundary.                                                               *)
(***************************************************************************)
EXTENDS Integers, Sequences, FiniteSets, TLC

(* ---- bounds of the model ---- *)
NumSockets == 3
NumRecipients == 2
NumSendTasks == 1
NumMsgs == 3
MaxOutages == 2
MaxFailures == 3
NumTokens == 5
NumNotifies == 3

Sockets == 1..NumSockets
Recipients == 1..NumRecipients
SendTasks == 1..NumSendTasks
Msgs == 1..NumMsgs

(* time.sleep(10) of subscribe *)
SleepSeconds == 10

(* account of the endpoint that serves websocket c (the identity the       *)
(* handshake was authenticated for); sockets 1 and 3 share recipient 1     *)
Owner(c) == ((c - 1) % NumRecipients) + 1

VARIABLES
    connections,   \* WebSocketManager.connections : insertion-ordered dict,
                   \* a sequence of [key |-> user_id, val |-> list of sockets]
    lock,          \* WebSocketManager.lock : "free" or the name of the holder
    ws,            \* per websocket: position of the endpoint serving it
    sendTask,      \* per call of WebSocketManager.send: its frame
    bcast          \* the call of WebSocketManager.broadcast_json: its frame

wsvars == <<connections, lock, ws, sendTask, bcast>>

VARIABLES
    channel,       \* the Redis list of the channel, head first
    kind,          \* per message: the class of its payload once produced
    brokerUp,      \* whether the broker is reachable
    outages,       \* how often the broker went down
    pub,           \* per message: how its publish call ended
    sub,           \* frame of the subscribe coroutine
    connErrors,    \* ConnectionErrors raised in the subscribe loop
    backoffs,      \* completed time.sleep calls of the subscribe loop
    waited,        \* time units spent in time.sleep
    popped,        \* items blpop returned, with the failures that preceded
    handed         \* items passed to the callback

brokervars == <<channel, kind, brokerUp, outages, pub, sub, connErrors, backoffs,
                waited, popped, handed>>

VARIABLES
    cancel,        \* the external cancellation signal of the subscribe task
    written,       \* pairs <<message, websocket>> the handler has delivered
    siblingTook,   \* items a sibling process has popped from the channel
    codec          \* a StatusMessage on its way through encode and decode

extravars == <<cancel, written, siblingTook, codec>>

VARIABLES
    handles,       \* the broker handles created so far, with the calls that
                   \* use each (0 is the subscribe loop)
    pubCall,       \* per message, the position of its publish call
    tokens,        \* the rows of table accesstoken
    notifications  \* the rows of table notification

dbvars == <<handles, pubCall, tokens, notifications>>

(* ---------------- Python dict / list primitives ---------------- *)
Range(s) == {s[i] : i \in DOMAIN s}

\* k in d
HasKey(d, k) == \E i \in DOMAIN d : d[i].key = k

IndexOf(d, k) == CHOOSE i \in DOMAIN d : d[i].key = k

\* d[k]
Get(d, k) == d[IndexOf(d, k)].val

\* d[k] = v  (a new key goes to the end of the dict's order)
SetItem(d, k, v) ==
    IF HasKey(d, k) THEN [d EXCEPT ![IndexOf(d, k)].val = v]
    ELSE Append(d, [key |-> k, val |-> v])

\* del d[k]
DelItem(d, k) == SelectSeq(d, LAMBDA e : e.key # k)

\* list.remove(x) for x in l : removes the first occurrence
ListRemove(l, x) ==
    LET i == CHOOSE j \in DOMAIN l : l[j] = x /\ \A h \in 1..(j - 1) : l[h] # x
    IN  SubSeq(l, 1, i - 1) \o SubSeq(l, i + 1, Len(l))

(* ---------------- WebSocketManager ---------------- *)

\* a connect that assigns a new list to the key instead of appending
connect_replaceList(d, user_id, websocket) == SetItem(d, user_id, <<websocket>>)

\* a connect that creates the list with the websocket in it and appends too
connect_initWithSocket(d, user_id, websocket) ==
    LET d1 == IF ~HasKey(d, user_id) THEN SetItem(d, user_id, <<websocket>>) ELSE d
    IN  SetItem(d1, user_id, Append(Get(d1, user_id), websocket))

\* body of connect under the lock (lines 46-49)
connect(d, user_id, websocket) ==
    LET d1 == IF ~HasKey(d, user_id) THEN SetItem(d, user_id, <<>>) ELSE d
    IN  SetItem(d1, user_id, Append(Get(d1, user_id), websocket))

\* a disconnect that pops the last websocket of the list, whichever it is
disconnect_popLast(d, user_id, websocket) ==
    IF ~HasKey(d, user_id) THEN [conn |-> d, raised |-> FALSE]
    ELSE LET l == SubSeq(Get(d, user_id), 1, Len(Get(d, user_id)) - 1)
         IN  [conn |-> IF l = <<>> THEN DelItem(d, user_id)
                       ELSE SetItem(d, user_id, l),
              raised |-> websocket \notin Range(Get(d, user_id))]

\* a disconnect that forgets to delete the emptied key
disconnect_keepEmptyKey(d, user_id, websocket) ==
    IF ~HasKey(d, user_id) THEN [conn |-> d, raised |-> FALSE]
    ELSE IF websocket \notin Range(Get(d, user_id))
         THEN [conn |-> d, raised |-> TRUE]
         ELSE [conn |-> SetItem(d, user_id, ListRemove(Get(d, user_id), websocket)),
               raised |-> FALSE]

\* a disconnect that drops the whole key of the recipient
disconnect_dropAll(d, user_id, websocket) ==
    IF ~HasKey(d, user_id) THEN [conn |-> d, raised |-> FALSE]
    ELSE IF websocket \notin Range(Get(d, user_id))
         THEN [conn |-> d, raised |-> TRUE]
         ELSE [conn |-> DelItem(d, user_id), raised |-> FALSE]

\* body of disconnect under the lock (lines 58-61); list.remove raises
\* ValueError when the websocket is not in the list
disconnect(d, user_id, websocket) ==
    IF ~HasKey(d, user_id) THEN [conn |-> d, raised |-> FALSE]
    ELSE IF websocket \notin Range(Get(d, user_id))
         THEN [conn |-> d, raised |-> TRUE]
         ELSE LET l == ListRemove(Get(d, user_id), websocket)
              IN  [conn |-> IF l = <<>> THEN DelItem(d, user_id)
                            ELSE SetItem(d, user_id, l),
                   raised |-> FALSE]

\* a send that iterates the list of the first key of the registry
ListOf_firstKey(d, t) == IF t.attached /\ d # <<>> THEN d[1].val ELSE <<>>

\* the list object a send iterates: self.connections.get(user_id, []) is the
\* registry's own list while the task is attached; once the key was deleted
\* (or was absent at lookup) the task holds an orphaned empty list
ListOf(d, t) == IF t.attached THEN Get(d, t.account) ELSE <<>>

\* a list of a deleted key is orphaned: sends holding it are detached
Detach(st, d) ==
    [t \in SendTasks |-> [st[t] EXCEPT !.attached = @ /\ HasKey(d, st[t].account)]]

\* for websocket in connections: the list iterator takes element idx+1 of
\* the list as it is now, or ends (line 70)
SendAdvance(t, d) ==
    IF t.idx < Len(ListOf(d, t))
    THEN [t EXCEPT !.pc = "writing", !.websocket = ListOf(d, t)[t.idx + 1],
                   !.idx = @ + 1]
    ELSE [t EXCEPT !.pc = "done", !.websocket = 0]

IdleSend ==
    [pc |-> "idle", account |-> 0, idx |-> 0, attached |-> FALSE, websocket |-> 0,
     snapshot |-> <<>>, visited |-> <<>>, failed |-> {}]

IdleBcast ==
    [pc |-> "idle", key |-> 0, idx |-> 0, websocket |-> 0, visited |-> <<>>]

WsInit ==
    /\ connections = <<>>
    /\ lock = "free"
    /\ ws = [c \in Sockets |-> "connecting"]
    /\ sendTask = [t \in SendTasks |-> IdleSend]
    /\ bcast = IdleBcast

(* ---- endpoint: connect ---- *)

\* a connect that registers the websocket before the handshake is awaited
ConnectAccept_registerFirst(c) ==
    /\ ws[c] = "connecting"
    /\ connections' = connect(connections, Owner(c), c)
    /\ \E ok \in BOOLEAN : ws' = [ws EXCEPT ![c] = IF ok THEN "accepted" ELSE "rejected"]
    /\ UNCHANGED <<brokervars, extravars, dbvars, lock, sendTask, bcast>>

\* await websocket.accept() (line 44): the handshake succeeds or fails; a
\* websocket can be accepted only once
ConnectAccept(c) ==
    /\ ws[c] = "connecting"
    /\ \E ok \in BOOLEAN : ws' = [ws EXCEPT ![c] = IF ok THEN "accepted" ELSE "rejected"]
    /\ UNCHANGED <<brokervars, extravars, dbvars, connections, lock, sendTask, bcast>>

\* async with self.lock: ... append (lines 45-50)
ConnectRegister(c) ==
    /\ ws[c] = "accepted"
    /\ lock = "free"
    /\ connections' = connect(connections, Owner(c), c)
    /\ ws' = [ws EXCEPT ![c] = "open"]
    /\ UNCHANGED <<brokervars, extravars, dbvars, lock, sendTask, bcast>>

(* ---- endpoint: disconnect(websocket, account) on close (lines 52-62) ---- *)
Disconnect(c) ==
    /\ ws[c] = "open"
    /\ lock = "free"
    /\ LET r == disconnect(connections, Owner(c), c)
       IN  /\ connections' = r.conn
           /\ sendTask' = Detach(sendTask, r.conn)
           /\ ws' = [ws EXCEPT ![c] = IF r.raised THEN "raised" ELSE "closed"]
    /\ UNCHANGED <<brokervars, extravars, dbvars, lock, bcast>>

(* ---- send(status, account) (lines 64-77) ---- *)

\* lines 68-70: look the list up and enter the loop (calls are numbered in
\* the order in which they start)
SendStart(t, r) ==
    /\ sendTask[t].pc = "idle"
    /\ \A u \in 1..(t - 1) : sendTask[u].pc # "idle"
    /\ LET has == HasKey(connections, r)
           t0 == [IdleSend EXCEPT !.account = r, !.attached = has,
                      !.snapshot = IF has THEN Get(connections, r) ELSE <<>>]
       IN  sendTask' = [sendTask EXCEPT ![t] = SendAdvance(t0, connections)]
    /\ UNCHANGED <<brokervars, extravars, dbvars, connections, lock, ws, bcast>>

\* line 73 returns: the write succeeded, next iteration
SendWriteOk(t) ==
    /\ sendTask[t].pc = "writing"
    /\ LET t1 == [sendTask[t] EXCEPT
                     !.visited = Append(@, sendTask[t].websocket)]
       IN  sendTask' = [sendTask EXCEPT ![t] = SendAdvance(t1, connections)]
    /\ UNCHANGED <<brokervars, extravars, dbvars, connections, lock, ws, bcast>>

\* lines 74-77 once the lock is held: disconnect, then next iteration
SendDisconnect(t, t1) ==
    LET r == disconnect(connections, t1.account, t1.websocket)
        st == Detach([sendTask EXCEPT ![t] = t1], r.conn)
    IN  /\ connections' = r.conn
        /\ sendTask' = [st EXCEPT ![t] =
               IF r.raised THEN [st[t] EXCEPT !.pc = "raised"]
               ELSE SendAdvance(st[t], r.conn)]

\* line 73 raises WebSocketDisconnect: lines 74-77; disconnect runs at once
\* when the lock is free and waits for it otherwise
SendWriteFail(t) ==
    /\ sendTask[t].pc = "writing"
    /\ LET t1 == [sendTask[t] EXCEPT
                     !.visited = Append(@, sendTask[t].websocket),
                     !.failed = @ \cup {sendTask[t].websocket}]
       IN  IF lock = "free"
           THEN SendDisconnect(t, t1)
           ELSE /\ sendTask' = [sendTask EXCEPT ![t] = [t1 EXCEPT !.pc = "disconnecting"]]
                /\ UNCHANGED connections
    /\ UNCHANGED <<brokervars, extravars, dbvars, lock, ws, bcast>>

\* the lock became free for a send waiting in disconnect (line 57)
SendAcquire(t) ==
    /\ sendTask[t].pc = "disconnecting"
    /\ lock = "free"
    /\ SendDisconnect(t, sendTask[t])
    /\ UNCHANGED <<brokervars, extravars, dbvars, lock, ws, bcast>>

(* ---- broadcast_json(message) (lines 79-91) ---- *)

\* the two nested for loops over the dict and the list (lines 84-85)
BcastAdvance(b, d) ==
    IF b.key >= 1 /\ b.key <= Len(d) /\ b.idx < Len(d[b.key].val)
    THEN [b EXCEPT !.pc = "writing", !.websocket = d[b.key].val[b.idx + 1],
                   !.idx = @ + 1]
    ELSE IF b.key < Len(d)
         THEN [b EXCEPT !.pc = "writing", !.key = @ + 1, !.idx = 1,
                        !.websocket = d[b.key + 1].val[1]]
         ELSE [b EXCEPT !.pc = "done", !.websocket = 0]

\* line 83: take the lock and run to the first write (or to the end)
BroadcastStart ==
    /\ bcast.pc = "idle"
    /\ lock = "free"
    /\ bcast' = BcastAdvance(bcast, connections)
    /\ lock' = IF bcast'.pc = "done" THEN "free" ELSE "broadcast_json"
    /\ UNCHANGED <<brokervars, extravars, dbvars, connections, ws, sendTask>>

\* line 87 returns
BroadcastWriteOk ==
    /\ bcast.pc = "writing"
    /\ bcast' = BcastAdvance([bcast EXCEPT !.visited = Append(@, bcast.websocket)],
                             connections)
    /\ lock' = IF bcast'.pc = "done" THEN "free" ELSE lock
    /\ UNCHANGED <<brokervars, extravars, dbvars, connections, ws, sendTask>>

\* line 87 raises WebSocketDisconnect: line 91 awaits self.disconnect, which
\* waits for the lock this very task holds (asyncio.Lock is not reentrant)
BroadcastWriteFail ==
    /\ bcast.pc = "writing"
    /\ bcast' = [bcast EXCEPT !.pc = "disconnecting",
                              !.visited = Append(@, bcast.websocket)]
    /\ UNCHANGED <<brokervars, extravars, dbvars, connections, lock, ws, sendTask>>

WsNext ==
    \/ \E c \in Sockets : ConnectAccept(c)
    \/ \E c \in Sockets : ConnectRegister(c)
    \/ \E c \in Sockets : Disconnect(c)
    \/ \E t \in SendTasks, r \in Recipients : SendStart(t, r)
    \/ \E t \in SendTasks : SendWriteOk(t)
    \/ \E t \in SendTasks : SendWriteFail(t)
    \/ \E t \in SendTasks : SendAcquire(t)
    \/ BroadcastStart
    \/ BroadcastWriteOk
    \/ BroadcastWriteFail

(* ---------------- redis_client ---------------- *)

\* a publish whose ConnectionError is not caught
publish_noExcept(up, chan, m) ==
    IF up THEN [channel |-> <<m>> \o chan, result |-> "pushed"]
    ELSE [channel |-> chan, result |-> "raised"]

\* publish (lines 55-63): lpush puts the message at the head of the list; a
\* ConnectionError is logged and swallowed, the handle is closed either way
publish(up, chan, m) ==
    IF up THEN [channel |-> <<m>> \o chan, result |-> "pushed"]
    ELSE [channel |-> chan, result |-> "dropped"]

\* an except clause that retries at once, without the sleep
on_ConnectionError_noSleep(s) == [s EXCEPT !.pc = "blpop", !.streak = @ + 1]

\* except ConnectionError (lines 88-90): warn, then time.sleep(10)
on_ConnectionError(s) == [s EXCEPT !.pc = "sleep", !.streak = @ + 1]

\* a loop that passes every popped item to the callback
passes_filter_always(k) == TRUE

\* line 85: data is not None and chl.decode() == channel, for an item of
\* payload class k ("otherchan": the reply names another channel)
passes_filter(k) == k # "otherchan"

BrokerInit ==
    /\ channel = <<>>
    /\ kind = [m \in Msgs |-> "none"]
    /\ brokerUp = TRUE
    /\ outages = 0
    /\ pub = [m \in Msgs |-> "idle"]
    /\ sub = [pc |-> "blpop", msg |-> 0, streak |-> 0, cause |-> "none"]
    /\ connErrors = 0
    /\ backoffs = 0
    /\ waited = 0
    /\ popped = <<>>
    /\ handed = <<>>

ExtraInit ==
    /\ cancel = [requested |-> FALSE, iterations |-> 0]
    /\ written = <<>>
    /\ siblingTook = {}
    /\ codec = [pc |-> "idle"]

DbInit ==
    /\ handles = <<[owner |-> "subscribe", state |-> "open", users |-> {0}]>>
    /\ pubCall = [m \in Msgs |-> [pc |-> "idle", r |-> 0]]
    /\ tokens = [rows |-> {}, inserted |-> 0]
    /\ notifications = [rows |-> <<>>, now |-> 1]

\* messages are produced in the order of their ids
Fresh(m) == kind[m] = "none" /\ \A n \in 1..(m - 1) : kind[n] # "none"

\* publish(username, password, channel, message) with a str or dict message
\* that the handler can ("valid") or cannot ("badjson") decode
PublishCall(m, k) ==
    /\ Fresh(m)
    /\ LET r == publish(brokerUp, channel, m)
       IN  /\ channel' = r.channel
           /\ pub' = [pub EXCEPT ![m] = r.result]
    /\ kind' = [kind EXCEPT ![m] = k]
    /\ UNCHANGED <<wsvars, extravars, dbvars, brokerUp, outages, sub, connErrors, backoffs, waited,
                   popped, handed>>

\* notify_user (lines 93-104): publish of message.json()
notify_user(m) == PublishCall(m, "valid")

\* another client of the broker pushes bytes that are not UTF-8
ForeignPush(m) ==
    /\ Fresh(m)
    /\ brokerUp
    /\ channel' = <<m>> \o channel
    /\ kind' = [kind EXCEPT ![m] = "badbytes"]
    /\ UNCHANGED <<wsvars, extravars, dbvars, brokerUp, outages, pub, sub, connErrors, backoffs,
                   waited, popped, handed>>

\* the list holds an item that blpop returns under another channel name
OtherChannelItem(m) ==
    /\ Fresh(m)
    /\ brokerUp
    /\ channel' = <<m>> \o channel
    /\ kind' = [kind EXCEPT ![m] = "otherchan"]
    /\ UNCHANGED <<wsvars, extravars, dbvars, brokerUp, outages, pub, sub, connErrors, backoffs,
                   waited, popped, handed>>

\* the owner of the subscribe task signals cancellation (shutdown); subscribe
\* takes no such signal and its loop condition is True (lines 66-81)
CancelRequest ==
    /\ ~cancel.requested
    /\ cancel' = [requested |-> TRUE, iterations |-> Len(popped) + connErrors]
    /\ UNCHANGED <<wsvars, brokervars, dbvars, written, siblingTook, codec>>

BrokerDown ==
    /\ brokerUp
    /\ outages < MaxOutages
    /\ brokerUp' = FALSE
    /\ outages' = outages + 1
    /\ UNCHANGED <<wsvars, extravars, dbvars, channel, kind, pub, sub, connErrors, backoffs, waited,
                   popped, handed>>

BrokerRecover ==
    /\ ~brokerUp
    /\ brokerUp' = TRUE
    /\ UNCHANGED <<wsvars, extravars, dbvars, channel, kind, outages, pub, sub, connErrors, backoffs,
                   waited, popped, handed>>

\* a loop that reads the head of the list without removing it
SubscribePop_peek ==
    /\ sub.pc = "blpop"
    /\ brokerUp
    /\ channel # <<>>
    /\ popped' = Append(popped, [msg |-> Head(channel), streak |-> sub.streak])
    /\ IF ~passes_filter(kind[Head(channel)])
       THEN /\ sub' = [sub EXCEPT !.streak = 0]
            /\ UNCHANGED handed
       ELSE IF kind[Head(channel)] = "badbytes"
       THEN /\ sub' = [sub EXCEPT !.pc = "terminated", !.streak = 0,
                                  !.cause = "UnicodeDecodeError"]
            /\ UNCHANGED handed
       ELSE /\ sub' = [sub EXCEPT !.pc = "callback", !.msg = Head(channel),
                                  !.streak = 0]
            /\ handed' = Append(handed, [msg |-> Head(channel), streak |-> sub.streak])
    /\ UNCHANGED <<wsvars, extravars, dbvars, channel, kind, brokerUp, outages, pub,
                   connErrors, backoffs, waited>>

\* lines 83-87: blpop returns the head of the list; an item under another
\* channel name is skipped (line 85); data.decode() raises
\* UnicodeDecodeError on bytes that are not UTF-8, which no except clause of
\* the loop catches; otherwise the callback is entered
SubscribePop ==
    /\ sub.pc = "blpop"
    /\ brokerUp
    /\ channel # <<>>
    /\ channel' = Tail(channel)
    /\ popped' = Append(popped, [msg |-> Head(channel), streak |-> sub.streak])
    /\ IF ~passes_filter(kind[Head(channel)])
       THEN /\ sub' = [sub EXCEPT !.streak = 0]
            /\ UNCHANGED handed
       ELSE IF kind[Head(channel)] = "badbytes"
       THEN /\ sub' = [sub EXCEPT !.pc = "terminated", !.streak = 0,
                                  !.cause = "UnicodeDecodeError"]
            /\ UNCHANGED handed
       ELSE /\ sub' = [sub EXCEPT !.pc = "callback", !.msg = Head(channel),
                                  !.streak = 0]
            /\ handed' = Append(handed, [msg |-> Head(channel), streak |-> sub.streak])
    /\ UNCHANGED <<wsvars, extravars, dbvars, kind, brokerUp, outages, pub, connErrors, backoffs, waited>>

\* line 83 raises ConnectionError: lines 88-90
SubscribeConnectionError ==
    /\ sub.pc = "blpop"
    /\ ~brokerUp
    /\ connErrors < MaxFailures
    /\ connErrors' = connErrors + 1
    /\ sub' = on_ConnectionError(sub)
    /\ UNCHANGED <<wsvars, extravars, dbvars, channel, kind, brokerUp, outages, pub, backoffs, waited,
                   popped, handed>>

\* time.sleep(10) returns, next iteration of while True
SubscribeWake ==
    /\ sub.pc = "sleep"
    /\ backoffs' = backoffs + 1
    /\ waited' = waited + SleepSeconds
    /\ sub' = [sub EXCEPT !.pc = "blpop"]
    /\ UNCHANGED <<wsvars, extravars, dbvars, channel, kind, brokerUp, outages, pub, connErrors,
                   popped, handed>>

\* await callback(...) returns (line 87)
SubscribeCallbackReturn ==
    /\ sub.pc = "callback"
    /\ sub' = [sub EXCEPT !.pc = "blpop", !.msg = 0]
    /\ UNCHANGED <<wsvars, extravars, dbvars, channel, kind, brokerUp, outages, pub, connErrors,
                   backoffs, waited, popped, handed>>

\* await callback(...) raises on a payload the handler cannot decode; the
\* exception is no ConnectionError and leaves the while loop (line 87)
SubscribeCallbackRaise ==
    /\ sub.pc = "callback"
    /\ kind[sub.msg] = "badjson"
    /\ sub' = [sub EXCEPT !.pc = "terminated", !.cause = "CallbackError"]
    /\ UNCHANGED <<wsvars, extravars, dbvars, channel, kind, brokerUp, outages, pub, connErrors,
                   backoffs, waited, popped, handed>>

subscribe ==
    \/ SubscribePop
    \/ SubscribeConnectionError
    \/ SubscribeWake
    \/ SubscribeCallbackReturn
    \/ SubscribeCallbackRaise

BrokerNext ==
    \/ \E m \in Msgs, k \in {"valid", "badjson"} : PublishCall(m, k)
    \/ \E m \in Msgs : notify_user(m)
    \/ \E m \in Msgs : ForeignPush(m)
    \/ BrokerDown
    \/ BrokerRecover
    \/ SubscribePop
    \/ SubscribeConnectionError
    \/ SubscribeWake
    \/ SubscribeCallbackReturn
    \/ SubscribeCallbackRaise

(* ---------------- status messages (utils/status.py, status.py) -------- *)

\* Python values and JSON values are tagged, so that None, a dict, a UUID and
\* their JSON forms are different values
PyNone == [py |-> "None"]
PyDict(items) == [py |-> "dict", items |-> items]
PyUUID(hex) == [py |-> "UUID", hex |-> hex]
JsonNull == [json |-> "null"]
JsonObject(items) == [json |-> "object", items |-> items]
JsonString(str) == [json |-> "string", str |-> str]

\* class AlertSeverityEnum(StrEnum): the value of a member is its name
AlertSeverityEnum ==
    {[name |-> n, value |-> n] : n \in {"error", "success", "info", "warning"}}

\* class SeverityEnum(IntEnum): auto() numbers the members from 1
SeverityEnum ==
    {[name |-> "error", value |-> 1], [name |-> "success", value |-> 2],
     [name |-> "info", value |-> 3], [name |-> "warning", value |-> 4]}

\* serialisation of an optional Dict[str, Any] and an optional UUID
dump_payload(v) == IF v = PyNone THEN JsonNull ELSE JsonObject(v.items)
dump_error_code(v) == IF v = PyNone THEN JsonNull ELSE JsonString(v.hex)

\* validation of a JSON value as Dict[str, Any] | None and as UUID | None
load_payload(j) == IF j = JsonNull THEN PyNone ELSE PyDict(j.items)
load_error_code(j) == IF j = JsonNull THEN PyNone ELSE PyUUID(j.str)

\* a serialisation that leaves out fields that are None
utils_StatusMessage_json_excludeNone(m) ==
    IF m.payload = PyNone
    THEN [type |-> m.type, status |-> m.status, severity |-> m.severity.name,
          message |-> m.message]
    ELSE [type |-> m.type, status |-> m.status, severity |-> m.severity.name,
          message |-> m.message, payload |-> dump_payload(m.payload)]

\* utils.status.StatusMessage.json(): every field is written, the severity
\* through the json_encoders entry lambda x: x.name
utils_StatusMessage_json(m) ==
    [type |-> m.type, status |-> m.status, severity |-> m.severity.name,
     message |-> m.message, payload |-> dump_payload(m.payload)]

\* validation of utils.status.StatusMessage: a str is looked up among the
\* values of AlertSeverityEnum
utils_StatusMessage_validate(w) ==
    IF \E e \in AlertSeverityEnum : e.value = w.severity
    THEN [type |-> w.type, status |-> w.status,
          severity |-> CHOOSE e \in AlertSeverityEnum : e.value = w.severity,
          message |-> w.message, payload |-> load_payload(w.payload)]
    ELSE [error |-> "ValidationError"]

JsonNumber(num) == [json |-> "number", num |-> num]

\* a serialisation that writes the severity as the number of the member
status_StatusMessage_json_byValue(m) ==
    [status |-> m.status, severity |-> JsonNumber(m.severity.value), message |-> m.message,
     open |-> m.open, error_code |-> dump_error_code(m.error_code),
     payload |-> dump_payload(m.payload)]

\* status.StatusMessage.json(): the severity is written by name
status_StatusMessage_json(m) ==
    [status |-> m.status, severity |-> JsonString(m.severity.name), message |-> m.message,
     open |-> m.open, error_code |-> dump_error_code(m.error_code),
     payload |-> dump_payload(m.payload)]

\* a model without the before-validator of severity
convert_int_serial_absent(v) == v

\* convert_int_serial (status.py lines 52-56): a str is replaced by the
\* member of that name, SeverityEnum[v], which raises KeyError on an unknown name
convert_int_serial(v) ==
    IF v.json = "string"
    THEN IF \E e \in SeverityEnum : e.name = v.str
         THEN CHOOSE e \in SeverityEnum : e.name = v.str
         ELSE [error |-> "KeyError"]
    ELSE v

\* validation of status.StatusMessage: the before-validator runs first, then
\* the value must be a member of SeverityEnum or the number of one
status_StatusMessage_validate(w) ==
    LET v == convert_int_serial(w.severity)
    IN  IF v \in SeverityEnum
        THEN [status |-> w.status, severity |-> v, message |-> w.message,
              open |-> w.open, error_code |-> load_error_code(w.error_code),
              payload |-> load_payload(w.payload)]
        ELSE IF "json" \in DOMAIN v /\ v.json = "number"
                  /\ \E e \in SeverityEnum : e.value = v.num
        THEN [status |-> w.status,
              severity |-> CHOOSE e \in SeverityEnum : e.value = v.num,
              message |-> w.message,
              open |-> w.open, error_code |-> load_error_code(w.error_code),
              payload |-> load_payload(w.payload)]
        ELSE [error |-> "ValidationError"]

\* the values the fields of a status message are drawn from
StatusCodes == {200, 404, 500}
MessageTexts == {"", "Saved", "Not found"}
Payloads == {PyNone, PyDict(<<>>), PyDict(<<[key |-> "id", value |-> "7"]>>)}
ErrorCodes == {PyNone, PyUUID("6f1c"), PyUUID("a1e0")}

\* the valid instances of utils.status.StatusMessage (lines 43-47)
UtilsStatusMessages ==
    [type : {"statusMessage"}, status : StatusCodes, severity : AlertSeverityEnum,
     message : MessageTexts, payload : Payloads]

\* the valid instances of status.StatusMessage (lines 45-50)
StatusMessages ==
    [status : StatusCodes, severity : SeverityEnum, message : MessageTexts,
     open : BOOLEAN, error_code : ErrorCodes, payload : Payloads]

\* a status message is built
CodecBuild ==
    /\ codec.pc = "idle"
    /\ \/ \E m \in UtilsStatusMessages : codec' = [pc |-> "built", cls |-> "utils.status", m |-> m]
       \/ \E m \in StatusMessages : codec' = [pc |-> "built", cls |-> "status", m |-> m]
    /\ UNCHANGED <<wsvars, brokervars, dbvars, cancel, written, siblingTook>>

\* message.json()
CodecEncode ==
    /\ codec.pc = "built"
    /\ codec' = [pc |-> "encoded", cls |-> codec.cls, m |-> codec.m,
                 wire |-> IF codec.cls = "status"
                          THEN status_StatusMessage_json(codec.m)
                          ELSE utils_StatusMessage_json(codec.m)]
    /\ UNCHANGED <<wsvars, brokervars, dbvars, cancel, written, siblingTook>>

\* the receiving side validates the JSON document against the same class
CodecDecode ==
    /\ codec.pc = "encoded"
    /\ codec' = [pc |-> "decoded", cls |-> codec.cls, m |-> codec.m, wire |-> codec.wire,
                 out |-> IF codec.cls = "status"
                         THEN status_StatusMessage_validate(codec.wire)
                         ELSE utils_StatusMessage_validate(codec.wire)]
    /\ UNCHANGED <<wsvars, brokervars, dbvars, cancel, written, siblingTook>>

CodecNext ==
    \/ CodecBuild
    \/ CodecEncode
    \/ CodecDecode

vars == <<wsvars, brokervars, extravars, dbvars>>

\* the connection registry and its fan-out
Init == WsInit /\ BrokerInit /\ ExtraInit /\ DbInit
Next == WsNext
Spec == Init /\ [][Next]_vars

\* the broker client
SpecBroker == Init /\ [][BrokerNext]_vars

\* the broker side with replies under another channel name
FilterNext ==
    \/ BrokerNext
    \/ \E m \in Msgs : OtherChannelItem(m)

SpecFilter == Init /\ [][FilterNext]_vars

\* the broker side with the owner's cancellation signal
CancelNext ==
    \/ BrokerNext
    \/ CancelRequest

SpecCancel == Init /\ [][CancelNext]_vars

\* the codec of status messages
SpecCodec == Init /\ [][CodecNext]_vars

\* the broker client; the event loop keeps running the subscribe coroutine
SpecBrokerFair == Init /\ [][BrokerNext]_vars /\ WF_vars(subscribe)

\* the connections looked up for a recipient: self.connections.get(user_id, [])
ConnectionsFor(d, user_id) == IF HasKey(d, user_id) THEN Get(d, user_id) ELSE <<>>

(* ---------------- delivery of notifications ---------------- *)

\* the account a notification is addressed to
Rcpt(m) == ((m - 1) % NumRecipients) + 1

\* the status message of Scenario A
ScenarioA ==
    [type |-> "statusMessage", status |-> 200,
     severity |-> [name |-> "success", value |-> "success"],
     message |-> "Saved", payload |-> PyNone]

\* the status a notification carries: the first is that of Scenario A
StatusOf(m) ==
    IF m = 1 THEN ScenarioA
    ELSE [type |-> "statusMessage", status |-> 404,
          severity |-> [name |-> "error", value |-> "error"],
          message |-> "Not found",
          payload |-> PyDict(<<[key |-> "id", value |-> "7"]>>)]

\* msg = json.loads(status.json()) (websockets.py line 72)
send_msg(status) == utils_StatusMessage_json(status)

\* the frames one call of send has written: one per websocket whose
\* send_json returned
Frames(m, t) ==
    LET ok == SelectSeq(t.visited, LAMBDA c : c \notin t.failed)
    IN  [i \in 1..Len(ok) |->
            [msg |-> m, websocket |-> ok[i], frame |-> send_msg(StatusOf(m))]]

\* the handler decodes the envelope into recipient and status and calls
\* send(status, account)
HandlerSend ==
    /\ sub.pc = "callback"
    /\ SendStart(1, Rcpt(sub.msg))

\* send has returned, so the handler returns and subscribe goes on (line 87)
HandlerReturn ==
    /\ sub.pc = "callback"
    /\ sendTask[1].pc = "done"
    /\ sub' = [sub EXCEPT !.pc = "blpop", !.msg = 0]
    /\ sendTask' = [sendTask EXCEPT ![1] = IdleSend]
    /\ written' = written \o Frames(sub.msg, sendTask[1])
    /\ UNCHANGED <<connections, lock, ws, bcast, channel, kind, brokerUp, outages, pub,
                   connErrors, backoffs, waited, popped, handed, cancel, siblingTook,
                   codec, dbvars>>

\* list.remove raised ValueError inside send: the exception passes through the
\* handler and leaves the while loop of subscribe (line 87)
HandlerRaise ==
    /\ sub.pc = "callback"
    /\ sendTask[1].pc = "raised"
    /\ sub' = [sub EXCEPT !.pc = "terminated", !.cause = "ValueError"]
    /\ written' = written \o Frames(sub.msg, sendTask[1])
    /\ UNCHANGED <<wsvars, channel, kind, brokerUp, outages, pub, connErrors, backoffs,
                   waited, popped, handed, cancel, siblingTook, codec, dbvars>>

\* the subscribe loop of a sibling process, blocked in blpop on the same
\* list, receives the head (redis_client.py line 83); the sibling holds
\* none of this process's connections
SiblingPop ==
    /\ brokerUp
    /\ channel # <<>>
    /\ channel' = Tail(channel)
    /\ siblingTook' = siblingTook \cup
           {[msg |-> Head(channel),
             live |-> ConnectionsFor(connections, Rcpt(Head(channel)))]}
    /\ UNCHANGED <<wsvars, kind, brokerUp, outages, pub, sub, connErrors, backoffs, waited,
                   popped, handed, cancel, written, codec, dbvars>>

DispatchNext ==
    \/ \E c \in Sockets : ConnectAccept(c)
    \/ \E c \in Sockets : ConnectRegister(c)
    \/ \E c \in Sockets : Disconnect(c)
    \/ \E m \in Msgs : notify_user(m)
    \/ SubscribePop
    \/ HandlerSend
    \/ SendWriteOk(1)
    \/ SendWriteFail(1)
    \/ HandlerReturn
    \/ HandlerRaise

\* one backend process with its registry and its subscribe loop
SpecDispatch == Init /\ [][DispatchNext]_vars

SiblingsNext ==
    \/ DispatchNext
    \/ SiblingPop

\* the same process next to a sibling process on the same channel
SpecSiblings == Init /\ [][SiblingsNext]_vars

(* ---------------- table accesstoken and its trigger ---------------- *)

Accounts == Recipients
AccessTokenType == {"user", "api"}

\* a trigger function whose DELETE has no condition on the type
cleanup_obsolete_access_token_anyType(rows, new_row) ==
    {t \in rows : ~(t.account_id = new_row.account_id /\ t.id # new_row.id)}

\* DELETE FROM accesstoken WHERE account_id = NEW.account_id AND
\* type = 'user' AND id <> NEW.id (account_triggers.py line 49)
cleanup_obsolete_access_token(rows, new_row) ==
    {t \in rows : ~(t.account_id = new_row.account_id /\ t.type = "user" /\ t.id # new_row.id)}

\* trigger on_01_account_insert: AFTER INSERT ON accesstoken FOR EACH ROW
\* WHEN (NEW.type = 'user') (lines 35-41)
on_01_account_insert(rows, new_row) ==
    IF new_row.type = "user" THEN cleanup_obsolete_access_token(rows, new_row) ELSE rows

\* INSERT INTO accesstoken of one row with a new id, and its trigger
insert_accesstoken(tab, account_id, type) ==
    LET new_row == [id |-> tab.inserted + 1, account_id |-> account_id, type |-> type]
    IN  [rows |-> on_01_account_insert(tab.rows \cup {new_row}, new_row),
         inserted |-> tab.inserted + 1]

InsertToken(a, ty) ==
    /\ tokens.inserted < NumTokens
    /\ tokens' = insert_accesstoken(tokens, a, ty)
    /\ UNCHANGED <<wsvars, brokervars, extravars, handles, pubCall, notifications>>

TokensNext == \E a \in Accounts, ty \in AccessTokenType : InsertToken(a, ty)

SpecTokens == Init /\ [][TokensNext]_vars

(* ---------------- Account.notify (account.py lines 190-199) ------------ *)

\* the Notify objects passed to notify (notification.py lines 29-34)
Notifies == [subject : {"Report"}, message : {"ready", "failed"}]

\* item.message == message (line 194) compares the str column of a
\* Notification with the Notify object: str.__eq__ and BaseModel.__eq__ both
\* decline an operand of the other type, so Python compares identities
str_eq_Notify(item_message, message) == FALSE

\* line 194: the unread notifications of the account that compare equal
unread_duplicates(tab, account_id, message) ==
    {i \in DOMAIN tab.rows :
        /\ tab.rows[i].account_id = account_id
        /\ str_eq_Notify(tab.rows[i].message, message)
        /\ ~tab.rows[i].read}

\* lines 195-199: add a Notification, or refresh created_at of the duplicates
notify(tab, account_id, message, dedup) ==
    LET dups == unread_duplicates(tab, account_id, message)
    IN  IF ~dedup \/ dups = {}
        THEN [rows |-> Append(tab.rows,
                          [account_id |-> account_id, subject |-> message.subject,
                           message |-> message.message, read |-> FALSE,
                           created_at |-> tab.now, dedup |-> dedup]),
              now |-> tab.now + 1]
        ELSE [rows |-> [i \in DOMAIN tab.rows |->
                          IF i \in dups THEN [tab.rows[i] EXCEPT !.created_at = tab.now]
                          ELSE tab.rows[i]],
              now |-> tab.now + 1]

NotifyCall(a, message, dedup) ==
    /\ notifications.now <= NumNotifies
    /\ notifications' = notify(notifications, a, message, dedup)
    /\ UNCHANGED <<wsvars, brokervars, extravars, handles, pubCall, tokens>>

\* the account reads a notification (column read, notification.py line 49)
MarkRead(i) ==
    /\ ~notifications.rows[i].read
    /\ notifications' = [notifications EXCEPT !.rows[i].read = TRUE]
    /\ UNCHANGED <<wsvars, brokervars, extravars, handles, pubCall, tokens>>

NotifyNext ==
    \/ \E a \in Accounts, message \in Notifies, dedup \in BOOLEAN :
           NotifyCall(a, message, dedup)
    \/ \E i \in DOMAIN notifications.rows : MarkRead(i)

SpecNotify == Init /\ [][NotifyNext]_vars

(* ---- publish, step by step, with its broker handle (lines 55-63) ---- *)

\* a create_redis that hands out one handle kept at module level
create_redis_shared(hs) == [handles |-> hs, r |-> 1]

\* create_redis (config.py lines 58-65) builds a new client object on every
\* call
create_redis(hs) ==
    [handles |-> Append(hs, [owner |-> "publish", state |-> "open", users |-> {}]),
     r |-> Len(hs) + 1]

\* line 55: r = await settings_base.create_redis(...), for a str message or
\* for a dict that json.dumps cannot serialise
PublishCreate(m, k) ==
    /\ Fresh(m)
    /\ LET c == create_redis(handles)
       IN  /\ handles' = [c.handles EXCEPT ![c.r].users = @ \cup {m}]
           /\ pubCall' = [pubCall EXCEPT ![m] = [pc |-> "lpush", r |-> c.r]]
    /\ kind' = [kind EXCEPT ![m] = k]
    /\ UNCHANGED <<wsvars, extravars, tokens, notifications, channel, brokerUp, outages,
                   pub, sub, connErrors, backoffs, waited, popped, handed>>

\* lines 56-61: json.dumps raises TypeError, which no except clause catches;
\* otherwise lpush succeeds or raises ConnectionError, which is swallowed
PublishPush(m) ==
    /\ pubCall[m].pc = "lpush"
    /\ pubCall' = [pubCall EXCEPT ![m].pc = "finally"]
    /\ IF kind[m] = "unserialisable"
       THEN /\ pub' = [pub EXCEPT ![m] = "raised"]
            /\ UNCHANGED channel
       ELSE LET r == publish(brokerUp, channel, m)
            IN  /\ channel' = r.channel
                /\ pub' = [pub EXCEPT ![m] = r.result]
    /\ UNCHANGED <<wsvars, extravars, handles, tokens, notifications, kind, brokerUp,
                   outages, sub, connErrors, backoffs, waited, popped, handed>>

\* lines 62-63: finally: await r.aclose(); then publish returns or the
\* TypeError goes on to the caller
PublishClose(m) ==
    /\ pubCall[m].pc = "finally"
    /\ handles' = [handles EXCEPT ![pubCall[m].r].state = "closed"]
    /\ pubCall' = [pubCall EXCEPT ![m].pc = "returned"]
    /\ UNCHANGED <<wsvars, brokervars, extravars, tokens, notifications>>

PublishNext ==
    \/ \E m \in Msgs, k \in {"valid", "unserialisable"} : PublishCreate(m, k)
    \/ \E m \in Msgs : PublishPush(m)
    \/ \E m \in Msgs : PublishClose(m)
    \/ BrokerDown
    \/ BrokerRecover
    \/ SubscribePop
    \/ SubscribeConnectionError
    \/ SubscribeWake
    \/ SubscribeCallbackReturn

\* publish calls with their handles, next to the subscribe loop
SpecPublish == Init /\ [][PublishNext]_vars

\* a backoff that awaits asyncio.sleep and so yields to the event loop
LoopBlocked_asyncioSleep(s) == FALSE

\* time.sleep(10) (redis_client.py line 90) is a blocking call inside a
\* coroutine: from the except clause until it returns, the thread of the event
\* loop is held by subscribe
LoopBlocked(s) == s.pc = "sleep"

\* a step of another task of the event loop that runs subscribe
OnLoop(A) == ~LoopBlocked(sub) /\ A

\* the connection whose endpoint tasks run next to subscribe
LoopSockets == {1}

ProcessNext ==
    \/ \E c \in LoopSockets : OnLoop(ConnectAccept(c))
    \/ \E c \in LoopSockets : OnLoop(ConnectRegister(c))
    \/ \E c \in LoopSockets : OnLoop(Disconnect(c))
    \/ \E c \in LoopSockets : OnLoop(SendStart(1, Owner(c)))
    \/ OnLoop(SendWriteOk(1))
    \/ OnLoop(SendWriteFail(1))
    \/ \E m \in Msgs : OnLoop(notify_user(m))
    \/ BrokerDown
    \/ BrokerRecover
    \/ SubscribePop
    \/ SubscribeConnectionError
    \/ SubscribeWake
    \/ SubscribeCallbackReturn

\* the tasks of one backend process on their one event loop, and the broker
SpecProcess == Init /\ [][ProcessNext]_vars

QueueNext ==
    \/ BrokerNext
    \/ SiblingPop

\* the broker client next to the subscribe loop of a sibling process
SpecQueue == Init /\ [][QueueNext]_vars

\* C1: no recipient key of the registry is ever mapped to an empty list
C1_RegistryInvariant ==
    \A i \in DOMAIN connections : connections[i].val # <<>>

\* a key was created and its last connection removed again
C1_Witness ==
    /\ ws[1] = "closed"
    /\ ~HasKey(connections, Owner(1))
    /\ \E c \in Sockets : ws[c] = "open"

\* C2: a finished send has attempted a write on every connection that was
\* registered for the recipient when it started (connections that their own
\* endpoint closed meanwhile excepted)
C2_FanOutComplete ==
    \A t \in SendTasks :
        sendTask[t].pc \in {"done", "raised"} =>
            \A c \in Range(sendTask[t].snapshot) :
                c \in Range(sendTask[t].visited) \/ ws[c] # "open"

\* C3: Scenario B: sockets 1 and 3 registered in this order for recipient 1,
\* the write to socket 1 fails: after send socket 3 (and only it) received the
\* message, socket 1 is unregistered and socket 3 is still registered
C3_ScenarioB ==
    \A t \in SendTasks :
        (/\ sendTask[t].pc = "done"
         /\ sendTask[t].snapshot = <<1, 3>>
         /\ sendTask[t].failed = {1}
         /\ ws[1] = "open" /\ ws[3] = "open") =>
            /\ Range(sendTask[t].visited) \ sendTask[t].failed = {3}
            /\ ConnectionsFor(connections, sendTask[t].account) = <<3>>

\* a step in which disconnect(c, Owner(c)) ran under the lock: the endpoint of
\* c closed, or a send whose write to c failed got the lock
DisconnectRan(c) ==
    \/ ws[c] = "open" /\ ws'[c] # "open"
    \/ \E t \in SendTasks :
          /\ sendTask[t].websocket = c
          /\ \/ /\ sendTask[t].pc = "writing"
                /\ c \in sendTask'[t].failed
                /\ sendTask'[t].pc # "disconnecting"
             \/ /\ sendTask[t].pc = "disconnecting"
                /\ sendTask'[t].pc # "disconnecting"

\* C4: disconnect of a registered connection removes exactly it from the
\* recipient's connections, and removes the key when it was the last one
C4_UnregisterPost ==
    [][\A c \in Sockets :
          (c \in Range(ConnectionsFor(connections, Owner(c))) /\ DisconnectRan(c)) =>
              LET old == ConnectionsFor(connections, Owner(c))
                  new == ConnectionsFor(connections', Owner(c))
              IN  /\ c \notin Range(new)
                  /\ new = SelectSeq(old, LAMBDA x : x # c)
                  /\ HasKey(connections', Owner(c)) <=> (Range(old) # {c})]_vars

\* socket 1 was unregistered by its endpoint and its sibling remains
C4_Witness ==
    /\ ws[1] = "closed"
    /\ ws[3] = "open"
    /\ ConnectionsFor(connections, 1) = <<3>>

\* C5: send iterates a snapshot taken at lookup: every write goes to the
\* snapshot's element at the iteration position and a finished send visited
\* exactly the snapshot
C5_SnapshotIteration ==
    \A t \in SendTasks :
        /\ sendTask[t].pc = "writing" =>
              /\ sendTask[t].idx <= Len(sendTask[t].snapshot)
              /\ sendTask[t].websocket = sendTask[t].snapshot[sendTask[t].idx]
        /\ sendTask[t].pc = "done" => sendTask[t].visited = sendTask[t].snapshot

\* C6: the registry lock is never held while a write to a connection is
\* awaited, in send and in broadcast_json
C6_NoLockDuringWrite ==
    ((\E t \in SendTasks : sendTask[t].pc = "writing") \/ bcast.pc = "writing")
        => lock = "free"

\* C7: a publish (and so a notify_user) never raises to its caller; on a
\* transport failure the message is dropped: it is not on the channel and is
\* never popped
C7_BestEffortPublish ==
    \A m \in Msgs :
        /\ pub[m] # "raised"
        /\ pub[m] = "dropped" =>
              /\ m \notin Range(channel)
              /\ \A i \in DOMAIN popped : popped[i].msg # m

\* a publish hit a broker that was down and returned
C7_Witness == \E m \in Msgs : pub[m] = "dropped"

\* C8: every ConnectionError of the subscribe loop is followed by one sleep of
\* 10 time units, none of them ends the loop, and every decodable item popped
\* afterwards is passed to the callback
C8_RetryFixedBackoff ==
    /\ backoffs + (IF sub.pc = "sleep" THEN 1 ELSE 0) = connErrors
    /\ waited = SleepSeconds * backoffs
    /\ sub.pc = "terminated" => sub.cause \in {"UnicodeDecodeError", "CallbackError"}
    /\ handed = SelectSeq(popped, LAMBDA e : kind[e.msg] \notin {"badbytes", "otherchan"})

\* Scenario D: three consecutive failures, then a pop that reaches the callback
C8_Witness ==
    /\ backoffs = 3
    /\ waited = 30
    /\ \E i \in DOMAIN handed : handed[i].streak = 3

\* C9: after an outage, a valid message that is on the channel while the broker
\* is up is eventually passed to the callback (unless the broker fails again)
C9_ReconnectResilience ==
    \A m \in Msgs :
        (outages >= 1 /\ brokerUp /\ kind[m] = "valid" /\ m \in Range(channel))
            ~> ((\E i \in DOMAIN handed : handed[i].msg = m) \/ ~brokerUp)

\* C10: a message whose processing fails never ends the subscribe loop
C10_DecodeFailureIsolation ==
    (\E i \in DOMAIN popped : kind[popped[i].msg] # "valid") => sub.pc # "terminated"

\* broadcast_json can take its next step: a write can complete, and the
\* disconnect it awaits after a failed write can get the lock
BcastCanStep ==
    \/ bcast.pc = "writing"
    \/ bcast.pc = "disconnecting" /\ lock = "free"

\* C17: a broadcast that has started can always go on (it terminates), also
\* after the write to one connection failed
C17_BroadcastTerminates ==
    bcast.pc \notin {"idle", "done"} => BcastCanStep

\* websocket c is in some list of the registry
Registered(c) ==
    \E i \in DOMAIN connections : c \in Range(connections[i].val)

\* the websockets some send or broadcast has written to or is writing to
Reached ==
    UNION {Range(sendTask[t].visited) \cup {sendTask[t].websocket} : t \in SendTasks}
        \cup Range(bcast.visited) \cup {bcast.websocket}

\* C19: a websocket is in the registry only after its accept completed, a
\* websocket whose accept failed is never registered, and no delivery reaches
\* a websocket whose accept has not completed
C19_RegistrationAfterHandshake ==
    \A c \in Sockets :
        /\ Registered(c) => ws[c] = "open"
        /\ ws[c] \in {"connecting", "rejected"} => c \notin Reached

\* the handshake of socket 1 failed while its sibling is registered and was
\* written to
C19_Witness ==
    /\ ws[1] = "rejected"
    /\ Registered(3)
    /\ 3 \in Reached

NoDuplicates(l) == \A i, j \in DOMAIN l : l[i] = l[j] => i = j

\* C20: a websocket occurs at most once in a recipient's list, and one send or
\* broadcast writes to it at most once
C20_ConnectionsAreSets ==
    /\ \A i \in DOMAIN connections : NoDuplicates(connections[i].val)
    /\ \A t \in SendTasks : NoDuplicates(sendTask[t].visited)
    /\ NoDuplicates(bcast.visited)

\* two connections of one recipient, both written by one send
C20_Witness ==
    /\ ConnectionsFor(connections, 1) = <<1, 3>>
    /\ \E t \in SendTasks : sendTask[t].visited = <<1, 3>>

\* C14: once cancellation is signalled the subscribe loop starts no further
\* iteration: at most the blocking pop that was under way completes
C14_Cancellation ==
    cancel.requested => Len(popped) + connErrors <= cancel.iterations + 1

\* C15: messages published one after the other reach the callback in the
\* order in which the broker received them
C15_DeliveryOrder ==
    \A i, j \in DOMAIN handed :
        (i < j /\ pub[handed[i].msg] = "pushed" /\ pub[handed[j].msg] = "pushed")
            => handed[i].msg < handed[j].msg

\* C18: the callback is entered only for items popped under the subscribed
\* channel name; an item under another name is dropped and the loop goes on
\* with its next pop
C18_ChannelFilter ==
    /\ \A i \in DOMAIN handed : kind[handed[i].msg] # "otherchan"
    /\ (popped # <<>> /\ kind[popped[Len(popped)].msg] = "otherchan")
           => (sub.pc \in {"blpop", "sleep"} /\ sub.msg = 0)

\* an item under another channel name was dropped and a later item delivered
C18_Witness ==
    \E i, j \in DOMAIN popped :
        /\ i < j
        /\ kind[popped[i].msg] = "otherchan"
        /\ \E h \in DOMAIN handed : handed[h].msg = popped[j].msg

\* C12: decoding the encoded form of a valid status message yields the
\* message again, field for field; the severity, written by name, comes back
\* as the same member
C12_CodecRoundTrip ==
    codec.pc = "decoded" =>
        /\ codec.out = codec.m
        /\ codec.out.severity = codec.m.severity
        /\ (IF codec.cls = "status" THEN codec.wire.severity.str ELSE codec.wire.severity)
               = codec.m.severity.name

\* a status.StatusMessage of severity warning with a payload and an error
\* code has gone through encode and decode
C12_Witness ==
    /\ codec.pc = "decoded"
    /\ codec.cls = "status"
    /\ codec.m.severity.name = "warning"
    /\ codec.m.payload # PyNone
    /\ codec.m.error_code # PyNone
    /\ codec.wire.severity = JsonString("warning")

\* C11: a notification for recipient R reaches the connections of R that
\* this process holds, also when a sibling process is subscribed to the channel
C11_CrossProcessDelivery ==
    \A e \in siblingTook : \A c \in Range(e.live) :
        \E i \in DOMAIN written : written[i].msg = e.msg /\ written[i].websocket = c

\* C16: while a write to a connection of one recipient is under way, the
\* subscribe loop is free to pop a message for another recipient
C16_NoHeadOfLineBlocking ==
    \A i \in DOMAIN channel :
        (sendTask[1].pc = "writing" /\ Rcpt(channel[i]) # sendTask[1].account)
            => sub.pc = "blpop"

\* C13: the Scenario A status reaches a connection as one frame with the
\* fields type, status, severity, message and payload = null and no other
C13_ScenarioA ==
    /\ \A i \in DOMAIN written :
           StatusOf(written[i].msg) = ScenarioA =>
               /\ written[i].frame =
                      [type |-> "statusMessage", status |-> 200, severity |-> "success",
                       message |-> "Saved", payload |-> JsonNull]
               /\ \A j \in DOMAIN written :
                      (written[j].msg = written[i].msg
                          /\ written[j].websocket = written[i].websocket) => i = j
    /\ (sub.pc = "callback" /\ sendTask[1].pc = "done" /\ sendTask[1].snapshot = <<1>>
            /\ ws[1] = "open" /\ sendTask[1].failed = {})
           => Cardinality({i \in DOMAIN sendTask[1].visited :
                              sendTask[1].visited[i] = 1}) = 1

\* C1 alone is registered for its account and has received the frame
C13_Witness ==
    /\ ConnectionsFor(connections, 1) = <<1>>
    /\ written = <<[msg |-> 1, websocket |-> 1,
                    frame |-> [type |-> "statusMessage", status |-> 200,
                               severity |-> "success", message |-> "Saved",
                               payload |-> JsonNull]]>>

\* the lock is held by a send call; send never takes the lock for its lookup
\* and its loop (lines 69-73), it only waits for it inside disconnect
HeldBySend == lock = "send"

\* C21: a task that reads the registry map holds the registry lock: a send
\* in its loop over the recipient's list holds the lock, so that no other task
\* holds it or mutates the map meanwhile
C21_AccessUnderLock ==
    \A t \in SendTasks :
        (sendTask[t].pc = "writing" /\ sendTask[t].attached) => HeldBySend

\* the severity of the encoded form is the name of the member
SeverityByName ==
    codec.wire.severity =
        IF codec.cls = "status" THEN JsonString(codec.m.severity.name)
        ELSE codec.m.severity.name

C23_UnregisterUnregistered ==
    \A c \in Sockets, r \in Recipients :
        c \notin Range(ConnectionsFor(connections, r)) =>
            disconnect(connections, r, c) =
                [conn |-> connections, raised |-> HasKey(connections, r)]

\* C1 was removed by a send after a failed write, its sibling C3 is still
\* registered, and the following disconnect of C1 has failed
C23_Witness ==
    /\ ws[1] = "raised"
    /\ ConnectionsFor(connections, 1) = <<3>>
    /\ \E t \in SendTasks : 1 \in sendTask[t].failed

\* the websockets a send call has written to or is writing to
Touched(t) == Range(sendTask[t].visited) \cup ({sendTask[t].websocket} \ {0})

\* a send writes only to websockets of its own recipient that have been
\* registered
WritesOwnRecipient ==
    \A t \in SendTasks : \A c \in Touched(t) :
        Owner(c) = sendTask[t].account /\ ws[c] \in {"open", "closed", "raised"}

\* a send starts a write only on a websocket that is in its recipient's list
\* at that moment, and a step of a send to one recipient leaves the lists of
\* all other recipients as they are, so what a send to R writes does not
\* depend on sends to others
SendStepLocal ==
    \A t \in SendTasks :
        sendTask'[t] # sendTask[t] =>
            /\ (sendTask'[t].pc = "writing" /\ sendTask'[t].idx # sendTask[t].idx)
                   => sendTask'[t].websocket \in
                          Range(ConnectionsFor(connections', sendTask'[t].account))
            /\ \A r \in Recipients \ {sendTask'[t].account} :
                   ConnectionsFor(connections', r) = ConnectionsFor(connections, r)

TakenBySibling == {e.msg : e \in siblingTook}

\* C25: a message pushed to the channel is popped by at most one subscriber
\* and handed to a handler at most once; once popped it is not on the channel
\* again, also when its handler failed
C25_AtMostOnce ==
    /\ NoDuplicates(channel)
    /\ NoDuplicates([i \in DOMAIN popped |-> popped[i].msg])
    /\ NoDuplicates([i \in DOMAIN handed |-> handed[i].msg])
    /\ \A i \in DOMAIN popped :
           popped[i].msg \notin TakenBySibling /\ popped[i].msg \notin Range(channel)
    /\ \A m \in TakenBySibling : m \notin Range(channel)

\* one message went to the sibling, the handler of another failed after the
\* pop, and neither is on the channel
C25_Witness ==
    /\ TakenBySibling # {}
    /\ sub.pc = "terminated"
    /\ sub.cause = "CallbackError"
    /\ sub.msg \notin Range(channel)
    /\ channel # <<>>

\* during the backoff no connect, disconnect, send or publish of the process
\* takes a step
BackoffStep ==
    sub.pc = "sleep" =>
        /\ wsvars' = wsvars
        /\ pub' = pub
        /\ channel' = channel
        /\ kind' = kind

\* C26: from the except clause until the wait of 10 ends, no other task of
\* the process takes a step
C26_BlockingBackoff == [][BackoffStep]_vars

\* the loop is in its second backoff while a send is in its loop and the
\* connection is open
C26_Witness ==
    /\ sub.pc = "sleep"
    /\ \E c \in LoopSockets : ws[c] = "open"
    /\ sendTask[1].pc = "writing"
    /\ waited >= SleepSeconds

\* C27: a publish call that is over, with the push done, dropped on a
\* connectivity error or failed otherwise, has closed the handle it created;
\* every publish call has a handle of its own, which is not that of subscribe,
\* and the handle of subscribe stays open
C27_FreshHandleClosed ==
    /\ \A m \in Msgs :
           pubCall[m].pc = "returned" => handles[pubCall[m].r].state = "closed"
    /\ \A m \in Msgs :
           pubCall[m].pc # "idle" =>
               /\ handles[pubCall[m].r].users = {m}
               /\ handles[pubCall[m].r].owner = "publish"
    /\ \A m, n \in Msgs :
           (m # n /\ pubCall[m].pc # "idle" /\ pubCall[n].pc # "idle")
               => pubCall[m].r # pubCall[n].r
    /\ handles[1] = [owner |-> "subscribe", state |-> "open", users |-> {0}]

\* one publish has pushed, one was dropped on a connectivity error, one
\* failed in json.dumps, and all three have returned
C27_Witness ==
    /\ \A m \in 1..3 : pubCall[m].pc = "returned"
    /\ {pub[m] : m \in 1..3} = {"pushed", "dropped", "raised"}
    /\ \A m \in 1..3 : handles[pubCall[m].r].state = "closed"

\* the entries of all recipients but user_id, in the order of the dict
Others(d, user_id) == SelectSeq(d, LAMBDA e : e.key # user_id)

\* a step that changes the registry changes the entry of one recipient: a
\* connect has appended a websocket to its list, or a disconnect has taken one
\* out and kept the order of the rest; the keys and lists of all other
\* recipients are as before
FrameStep ==
    connections' # connections =>
        \E r \in Recipients :
            LET old == ConnectionsFor(connections, r)
                new == ConnectionsFor(connections', r)
            IN  /\ Others(connections', r) = Others(connections, r)
                /\ \/ \E c \in Sockets :
                          /\ Owner(c) = r
                          /\ ws[c] = "accepted" /\ ws'[c] = "open"
                          /\ new = Append(old, c)
                   \/ \E c \in Range(old) :
                          new = SelectSeq(old, LAMBDA x : x # c)

\* C28: connect(c, R) and disconnect(c, R) change only the entry of R, keep
\* the order of the remaining connections of R, and leave the entries of all
\* other recipients unchanged
C28_FrameCondition == [][FrameStep]_vars

\* C1 has been unregistered; C3 of the same recipient and the entry of
\* recipient 2 are still there
C28_Witness ==
    /\ ws[1] = "closed"
    /\ ws[3] = "open"
    /\ connections = <<[key |-> 2, val |-> <<2>>], [key |-> 1, val |-> <<3>>]>>

\* the rows of an account with a type
TokensOf(rows, a, ty) == {t \in rows : t.account_id = a /\ t.type = ty}

\* C29: every account has at most one token of type user; the insert of a
\* user token leaves that token as the only user token of its account, the
\* insert of an API token deletes nothing, and either leaves the API tokens
\* of the account and all tokens of other accounts as they are
C29_OneUserToken ==
    /\ \A a \in Accounts : Cardinality(TokensOf(tokens.rows, a, "user")) <= 1
    /\ \A a \in Accounts, ty \in AccessTokenType :
           LET new_row == [id |-> tokens.inserted + 1, account_id |-> a, type |-> ty]
               after == insert_accesstoken(tokens, a, ty).rows
           IN  /\ new_row \in after
               /\ ty = "user" => TokensOf(after, a, "user") = {new_row}
               /\ ty = "api" => after = tokens.rows \cup {new_row}
               /\ TokensOf(after, a, "api") \ {new_row} = TokensOf(tokens.rows, a, "api")
               /\ \A b \in Accounts \ {a}, u \in AccessTokenType :
                      TokensOf(after, b, u) = TokensOf(tokens.rows, b, u)

\* account 1 got two user tokens and an API token, account 2 a user token:
\* the first user token of account 1 is gone, the rest is there
C29_Witness ==
    tokens.rows = {[id |-> 2, account_id |-> 1, type |-> "api"],
                   [id |-> 3, account_id |-> 2, type |-> "user"],
                   [id |-> 4, account_id |-> 1, type |-> "user"]}

\* C30: a notify call with dedup enabled adds no Notification when the
\* account has an unread notification with the same message
C30_NotifyDedup ==
    \A i, j \in DOMAIN notifications.rows :
        LET old == notifications.rows[i]
            new == notifications.rows[j]
        IN  ~(/\ i < j
              /\ new.dedup
              /\ old.account_id = new.account_id
              /\ old.message = new.message
              /\ ~old.read)

====
